---------------------------- MODULE Spec2Model ----------------------------
(***************************************************************************)
(* Log anomaly detection service (python-service/app).                     *)
(*                                                                         *)
(* interface.py : predict_log, the threshold decision rule over the model  *)
(*                output, and the module globals pipe and DEBUG_PRINTED.   *)
(* main.py      : the POST /predict handler, which calls predict_log with  *)
(*                the default threshold and builds a LogResponse.          *)
(* model.py     : the pipeline handle loaded once at import.               *)
(*                                                                         *)
(* Probabilities and thresholds are modelled in tenths (5 is 0.5); labels  *)
(* are sequences of characters so that lower() and startswith() are        *)
(* computed, not assumed.  A Python dict is a record of its keys in        *)
(* insertion order and its key -> value mapping.                           *)
(***************************************************************************)
EXTENDS Integers, Sequences, FiniteSets, TLC

VARIABLES
    pipe,           \* interface.py:3   the model handle: text -> list of items
    DEBUG_PRINTED,  \* interface.py:4   the one-time debug guard
    printed,        \* number of "DEBUG raw model output" lines written so far
    pc,             \* per thread: the line it is about to execute
    frame,          \* per thread: the locals of its predict_log activation
    ret,            \* per thread: outcome of its last finished predict_log call
    prev,           \* per thread: outcome of the call before, when the
                    \* arguments were the same as the current call's
    response        \* per thread: what POST /predict answered last

vars == <<pipe, DEBUG_PRINTED, printed, pc, frame, ret, prev, response>>

---------------------------------------------------------------------------
(* Bounds of the model *)

MaxLen == 3       \* longest list of items the model provider returns
NThreads == 2     \* request threads of the server's thread pool

(* Program constant: threshold: float = 0.5, in tenths *)
DefaultThreshold == 5

Threads == 1..NThreads

---------------------------------------------------------------------------
(* Values *)

None == <<>>
Some(v) == <<v>>
Get(o) == o[1]

L_Anomaly == <<"A", "n", "o", "m", "a", "l", "y">>
L_ANOMALY_B == <<"A", "N", "O", "M", "A", "L", "Y", "_", "B">>
L_Normal == <<"N", "o", "r", "m", "a", "l">>
L_Anomal == <<"A", "n", "o", "m", "a", "l">>

Labels == {L_Anomaly, L_ANOMALY_B, L_Normal, L_Anomal}
Scores == {2, 5, 8}
Thresholds == {0, 5, 11}

Items == [label : Labels, score : Scores]
Range(s) == {s[i] : i \in 1..Len(s)}

(* What the pipeline returns for one text: one item per class of the model, *)
(* in the model's class order, so no label occurs twice                     *)
Raws ==
    UNION {{r \in [1..n -> Items] :
               \A i, j \in 1..n : r[i].label = r[j].label => i = j}
           : n \in 0..MaxLen}

---------------------------------------------------------------------------
(* str.lower and str.startswith *)

UpperCase == <<"A", "B", "C", "D", "E", "F", "G", "H", "I", "J", "K", "L", "M",
               "N", "O", "P", "Q", "R", "S", "T", "U", "V", "W", "X", "Y", "Z">>
LowerCase == <<"a", "b", "c", "d", "e", "f", "g", "h", "i", "j", "k", "l", "m",
               "n", "o", "p", "q", "r", "s", "t", "u", "v", "w", "x", "y", "z">>

lower_char(c) ==
    IF \E i \in 1..Len(UpperCase) : UpperCase[i] = c
    THEN LowerCase[CHOOSE i \in 1..Len(UpperCase) : UpperCase[i] = c]
    ELSE c

lower(s) == [i \in 1..Len(s) |-> lower_char(s[i])]

startswith(s, p) == Len(s) >= Len(p) /\ SubSeq(s, 1, Len(p)) = p

---------------------------------------------------------------------------
(* dict: keys in insertion order, and the mapping *)

EmptyDict == [keys |-> <<>>, val |-> <<>>]

(* d[k] = v : a new key goes last, an existing key keeps its place *)
dict_setitem(d, k, v) ==
    [keys |-> IF k \in Range(d.keys) THEN d.keys ELSE Append(d.keys, k),
     val  |-> [x \in DOMAIN d.val \cup {k} |-> IF x = k THEN v ELSE d.val[x]]]

(* interface.py:22  {item["label"]: float(item["score"]) for item in raw} *)
RECURSIVE dict_of_items(_)
dict_of_items(raw) ==
    IF raw = <<>> THEN EmptyDict
    ELSE LET last == raw[Len(raw)]
         IN  dict_setitem(dict_of_items(SubSeq(raw, 1, Len(raw) - 1)),
                          last.label, last.score)

(* Mutant: the prefix literal is one character short *)
is_anomaly_candidate_short(k) ==
    startswith(lower(k), <<"a", "n", "o", "m", "a", "l">>)

(* interface.py:25  the filter k.lower().startswith("anomaly") *)
is_anomaly_candidate(k) ==
    startswith(lower(k), <<"a", "n", "o", "m", "a", "l", "y">>)

(* interface.py:25  [k for k in probs if ...] : in the dict's key order *)
anomaly_candidates_of(probs) ==
    SelectSeq(probs.keys, is_anomaly_candidate)

(* Mutant: a later key replaces the best one on a tie *)
max_key_last(probs) ==
    LET best[i \in 1..Len(probs.keys)] ==
            IF i = 1 THEN probs.keys[1]
            ELSE IF probs.val[probs.keys[i]] >= probs.val[best[i - 1]]
                 THEN probs.keys[i]
                 ELSE best[i - 1]
    IN  best[Len(probs.keys)]

(* interface.py:40  max(probs, key=probs.get) on a non-empty dict: the first *)
(* key, in iteration order, whose value no other key's value exceeds         *)
max_key(probs) ==
    LET best[i \in 1..Len(probs.keys)] ==
            IF i = 1 THEN probs.keys[1]
            ELSE IF probs.val[probs.keys[i]] > probs.val[best[i - 1]]
                 THEN probs.keys[i]
                 ELSE best[i - 1]
    IN  best[Len(probs.keys)]

---------------------------------------------------------------------------
(* Outcomes *)

NoFrame ==
    [text |-> "", threshold |-> 0, caller |-> "", raw |-> <<>>,
     probs |-> EmptyDict, anomaly_candidates |-> <<>>,
     label |-> None, score |-> None]

NoRet ==
    [status |-> "none", text |-> "", threshold |-> 0,
     label |-> None, score |-> None, probs |-> EmptyDict, raw |-> <<>>]

NoResponse == [status |-> "none", label |-> None, score |-> None]

(* interface.py:43-48  the returned dict, with the call's arguments *)
Returned(f) ==
    [status |-> "returned", text |-> f.text, threshold |-> f.threshold,
     label |-> f.label, score |-> f.score, probs |-> f.probs, raw |-> f.raw]

(* interface.py:40  max() of an empty dict raises ValueError; nothing in *)
(* predict_log or predict catches it                                      *)
Raised(f, exc) ==
    [status |-> exc, text |-> f.text, threshold |-> f.threshold,
     label |-> None, score |-> None, probs |-> EmptyDict, raw |-> <<>>]

(* The whole of predict_log run by itself on one model output *)
predict_log(text, raw, threshold) ==
    LET probs == dict_of_items(raw)
        cands == anomaly_candidates_of(probs)
        f0    == [NoFrame EXCEPT !.text = text, !.threshold = threshold,
                                 !.raw = raw, !.probs = probs,
                                 !.anomaly_candidates = cands]
        f1    == IF cands # <<>> /\ probs.val[cands[1]] >= threshold
                 THEN [f0 EXCEPT !.label = Some(cands[1]),
                                 !.score = Some(probs.val[cands[1]])]
                 ELSE f0
    IN  IF f1.label # None THEN Returned(f1)
        ELSE IF probs.keys = <<>> THEN Raised(f1, "ValueError")
        ELSE Returned([f1 EXCEPT !.label = Some(max_key(probs)),
                                 !.score = Some(probs.val[max_key(probs)])])

---------------------------------------------------------------------------
(* Initial states: the modules have been imported, no request is running *)

SeqTexts == {"log line"}

(* The model of the concurrent specification: one text whose output takes *)
(* the anomaly branch, one that falls back to the top label, one whose    *)
(* output is empty                                                        *)
ConcPipe ==
    [text \in {"anomalous line", "normal line", "empty line"} |->
        CASE text = "anomalous line" ->
                <<[label |-> L_Normal, score |-> 2],
                  [label |-> L_Anomaly, score |-> 8]>>
          [] text = "normal line" ->
                <<[label |-> L_Normal, score |-> 8],
                  [label |-> L_Anomaly, score |-> 2]>>
          [] OTHER -> <<>>]

InitRest ==
    /\ DEBUG_PRINTED = FALSE
    /\ printed = 0
    /\ pc = [t \in Threads |-> "idle"]
    /\ frame = [t \in Threads |-> NoFrame]
    /\ ret = [t \in Threads |-> NoRet]
    /\ prev = [t \in Threads |-> NoRet]
    /\ response = [t \in Threads |-> NoResponse]

Init ==
    /\ pipe \in [SeqTexts -> Raws]
    /\ InitRest

InitConc ==
    /\ pipe = ConcPipe
    /\ InitRest

---------------------------------------------------------------------------
(* Entering predict_log *)

Enter(self, text, threshold, caller) ==
    /\ pc[self] \in {"idle", "done"}
    /\ pc' = [pc EXCEPT ![self] = "L14"]
    /\ frame' = [frame EXCEPT ![self] =
                    [NoFrame EXCEPT !.text = text, !.threshold = threshold,
                                    !.caller = caller]]
    /\ prev' = [prev EXCEPT ![self] =
                    IF ret[self].status # "none" /\ ret[self].text = text
                       /\ ret[self].threshold = threshold
                    THEN ret[self] ELSE NoRet]
    /\ ret' = [ret EXCEPT ![self] = NoRet]
    /\ response' = [response EXCEPT ![self] = NoResponse]
    /\ UNCHANGED <<pipe, DEBUG_PRINTED, printed>>

(* A direct call predict_log(text, threshold) *)
call_predict_log(self) ==
    \E text \in DOMAIN pipe, threshold \in Thresholds :
        Enter(self, text, threshold, "direct")

(* main.py:8-9  POST /predict: predict_log(request.text), default threshold *)
predict(self) ==
    \E text \in DOMAIN pipe :
        Enter(self, text, DefaultThreshold, "predict")

---------------------------------------------------------------------------
(* The body of predict_log, statement by statement *)

(* interface.py:14  raw = pipe(text, return_all_scores=True)[0] *)
L14(self) ==
    /\ pc[self] = "L14"
    /\ frame' = [frame EXCEPT ![self].raw = pipe[frame[self].text]]
    /\ pc' = [pc EXCEPT ![self] = "L17"]
    /\ UNCHANGED <<pipe, DEBUG_PRINTED, printed, ret, prev, response>>

(* Mutant: the conversion of line 22 sits inside the debug block, so only *)
(* the call that prints builds probs                                      *)
L17_skips(self) ==
    /\ pc[self] = "L17"
    /\ pc' = [pc EXCEPT ![self] = IF ~DEBUG_PRINTED THEN "L18" ELSE "L25"]
    /\ UNCHANGED <<pipe, DEBUG_PRINTED, printed, frame, ret, prev, response>>

(* interface.py:17  if not DEBUG_PRINTED: *)
L17(self) ==
    /\ pc[self] = "L17"
    /\ pc' = [pc EXCEPT ![self] = IF ~DEBUG_PRINTED THEN "L18" ELSE "L22"]
    /\ UNCHANGED <<pipe, DEBUG_PRINTED, printed, frame, ret, prev, response>>

(* interface.py:18  print("DEBUG raw model output:", raw, flush=True) *)
L18(self) ==
    /\ pc[self] = "L18"
    /\ printed' = printed + 1
    /\ pc' = [pc EXCEPT ![self] = "L19"]
    /\ UNCHANGED <<pipe, DEBUG_PRINTED, frame, ret, prev, response>>

(* interface.py:19  DEBUG_PRINTED = True *)
L19(self) ==
    /\ pc[self] = "L19"
    /\ DEBUG_PRINTED' = TRUE
    /\ pc' = [pc EXCEPT ![self] = "L22"]
    /\ UNCHANGED <<pipe, printed, frame, ret, prev, response>>

(* Mutant: raw is a module global, so the conversion reads whatever the *)
(* last thread through line 14 stored                                   *)
L22_shared(self) ==
    /\ pc[self] = "L22"
    /\ \E other \in Threads :
          /\ pc[other] \notin {"idle", "done", "L14", "M10"}
          /\ frame' = [frame EXCEPT ![self].probs =
                          dict_of_items(frame[other].raw)]
    /\ pc' = [pc EXCEPT ![self] = "L25"]
    /\ UNCHANGED <<pipe, DEBUG_PRINTED, printed, ret, prev, response>>

(* interface.py:22  probs = {item["label"]: float(item["score"]) ...} *)
L22(self) ==
    /\ pc[self] = "L22"
    /\ frame' = [frame EXCEPT ![self].probs = dict_of_items(frame[self].raw)]
    /\ pc' = [pc EXCEPT ![self] = "L25"]
    /\ UNCHANGED <<pipe, DEBUG_PRINTED, printed, ret, prev, response>>

(* interface.py:25  anomaly_candidates = [k for k in probs if ...] *)
L25(self) ==
    /\ pc[self] = "L25"
    /\ frame' = [frame EXCEPT ![self].anomaly_candidates =
                    anomaly_candidates_of(frame[self].probs)]
    /\ pc' = [pc EXCEPT ![self] = "L28"]
    /\ UNCHANGED <<pipe, DEBUG_PRINTED, printed, ret, prev, response>>

(* interface.py:28  label, score = None, None *)
L28(self) ==
    /\ pc[self] = "L28"
    /\ frame' = [frame EXCEPT ![self].label = None, ![self].score = None]
    /\ pc' = [pc EXCEPT ![self] = "L30"]
    /\ UNCHANGED <<pipe, DEBUG_PRINTED, printed, ret, prev, response>>

(* Mutant: strictly above the threshold *)
L30_strict(self) ==
    /\ pc[self] = "L30"
    /\ LET f == frame[self]
       IN  IF f.anomaly_candidates # <<>>
           THEN LET anomaly_label == f.anomaly_candidates[1]
                    anomaly_score == f.probs.val[anomaly_label]
                IN  IF anomaly_score > f.threshold
                    THEN frame' = [frame EXCEPT
                                      ![self].label = Some(anomaly_label),
                                      ![self].score = Some(anomaly_score)]
                    ELSE frame' = frame
           ELSE frame' = frame
    /\ pc' = [pc EXCEPT ![self] = "L39"]
    /\ UNCHANGED <<pipe, DEBUG_PRINTED, printed, ret, prev, response>>

(* Mutant: the anomaly label whenever there is one, whatever its score *)
L30_always(self) ==
    /\ pc[self] = "L30"
    /\ LET f == frame[self]
       IN  IF f.anomaly_candidates # <<>>
           THEN LET anomaly_label == f.anomaly_candidates[1]
                    anomaly_score == f.probs.val[anomaly_label]
                IN  IF TRUE
                    THEN frame' = [frame EXCEPT
                                      ![self].label = Some(anomaly_label),
                                      ![self].score = Some(anomaly_score)]
                    ELSE frame' = frame
           ELSE frame' = frame
    /\ pc' = [pc EXCEPT ![self] = "L39"]
    /\ UNCHANGED <<pipe, DEBUG_PRINTED, printed, ret, prev, response>>

(* Mutant: the threshold reported as the score *)
L30_score(self) ==
    /\ pc[self] = "L30"
    /\ LET f == frame[self]
       IN  IF f.anomaly_candidates # <<>>
           THEN LET anomaly_label == f.anomaly_candidates[1]
                    anomaly_score == f.probs.val[anomaly_label]
                IN  IF anomaly_score >= f.threshold
                    THEN frame' = [frame EXCEPT
                                      ![self].label = Some(anomaly_label),
                                      ![self].score = Some(f.threshold)]
                    ELSE frame' = frame
           ELSE frame' = frame
    /\ pc' = [pc EXCEPT ![self] = "L39"]
    /\ UNCHANGED <<pipe, DEBUG_PRINTED, printed, ret, prev, response>>

(* interface.py:30-36  the anomaly branch *)
L30(self) ==
    /\ pc[self] = "L30"
    /\ LET f == frame[self]
       IN  IF f.anomaly_candidates # <<>>
           THEN LET anomaly_label == f.anomaly_candidates[1]
                    anomaly_score == f.probs.val[anomaly_label]
                IN  IF anomaly_score >= f.threshold
                    THEN frame' = [frame EXCEPT
                                      ![self].label = Some(anomaly_label),
                                      ![self].score = Some(anomaly_score)]
                    ELSE frame' = frame
           ELSE frame' = frame
    /\ pc' = [pc EXCEPT ![self] = "L39"]
    /\ UNCHANGED <<pipe, DEBUG_PRINTED, printed, ret, prev, response>>

(* Mutant: max(probs, key=probs.get, default=None), so an empty dict *)
(* returns a decision without a label                                *)
L39_default(self) ==
    /\ pc[self] = "L39"
    /\ LET f == frame[self]
       IN  IF f.label # None \/ f.probs.keys = <<>>
           THEN frame' = frame
           ELSE frame' = [frame EXCEPT
                       ![self].label = Some(max_key(f.probs)),
                       ![self].score = Some(f.probs.val[max_key(f.probs)])]
    /\ pc' = [pc EXCEPT ![self] = "L43"]
    /\ UNCHANGED <<pipe, DEBUG_PRINTED, printed, ret, prev, response>>

(* interface.py:39-41  the fallback: the top label, or ValueError from *)
(* max() of an empty dict, which leaves predict_log and predict         *)
L39(self) ==
    /\ pc[self] = "L39"
    /\ LET f == frame[self]
       IN  IF f.label # None
           THEN /\ pc' = [pc EXCEPT ![self] = "L43"]
                /\ UNCHANGED <<frame, ret, response>>
           ELSE IF f.probs.keys = <<>>
           THEN /\ ret' = [ret EXCEPT ![self] = Raised(f, "ValueError")]
                /\ response' = [response EXCEPT ![self] =
                       IF f.caller = "predict"
                       THEN [NoResponse EXCEPT !.status = "500"]
                       ELSE NoResponse]
                /\ frame' = [frame EXCEPT ![self] = NoFrame]
                /\ pc' = [pc EXCEPT ![self] = "done"]
           ELSE /\ frame' = [frame EXCEPT
                       ![self].label = Some(max_key(f.probs)),
                       ![self].score = Some(f.probs.val[max_key(f.probs)])]
                /\ pc' = [pc EXCEPT ![self] = "L43"]
                /\ UNCHANGED <<ret, response>>
    /\ UNCHANGED <<pipe, DEBUG_PRINTED, printed, prev>>

(* Mutant: the guard is cleared on the way out, a per-call flag *)
L43_reset(self) ==
    /\ pc[self] = "L43"
    /\ ret' = [ret EXCEPT ![self] = Returned(frame[self])]
    /\ pc' = [pc EXCEPT ![self] =
                 IF frame[self].caller = "predict" THEN "M10" ELSE "done"]
    /\ frame' = [frame EXCEPT ![self] = NoFrame]
    /\ DEBUG_PRINTED' = FALSE
    /\ UNCHANGED <<pipe, printed, prev, response>>

(* interface.py:43-48  return {"label": ..., "score": ..., "probs": ..., "raw": ...} *)
L43(self) ==
    /\ pc[self] = "L43"
    /\ ret' = [ret EXCEPT ![self] = Returned(frame[self])]
    /\ pc' = [pc EXCEPT ![self] =
                 IF frame[self].caller = "predict" THEN "M10" ELSE "done"]
    /\ frame' = [frame EXCEPT ![self] = NoFrame]
    /\ UNCHANGED <<pipe, DEBUG_PRINTED, printed, prev, response>>

(* main.py:10  return LogResponse(label=result["label"], score=result["score"]) *)
M10(self) ==
    /\ pc[self] = "M10"
    /\ response' = [response EXCEPT ![self] =
                       [status |-> "200", label |-> ret[self].label,
                        score |-> ret[self].score]]
    /\ pc' = [pc EXCEPT ![self] = "done"]
    /\ UNCHANGED <<pipe, DEBUG_PRINTED, printed, frame, ret, prev>>

Body(self) ==
    \/ L14(self) \/ L17(self) \/ L18(self) \/ L19(self) \/ L22(self)
    \/ L25(self) \/ L28(self) \/ L30(self) \/ L39(self) \/ L43(self)
    \/ M10(self)

---------------------------------------------------------------------------
(* Spec: calls and requests made one after another, on any model output.   *)
(* SpecConc: requests served by the threads of the server's pool, their     *)
(* statements interleaved in any order.                                     *)

SeqThreads == {1}

Next ==
    \E self \in SeqThreads :
        call_predict_log(self) \/ predict(self) \/ Body(self)

Spec == Init /\ [][Next]_vars

NextConc ==
    \E self \in Threads : predict(self) \/ Body(self)

SpecConc == InitConc /\ [][NextConc]_vars

---------------------------------------------------------------------------
(* What the claims speak of, stated without the operators of the code *)

AnomalyLower == <<"a", "n", "o", "m", "a", "l", "y">>
AnomalyUpper == <<"A", "N", "O", "M", "A", "L", "Y">>

(* k case-insensitively starts with "anomaly" *)
AnomalyPrefixed(k) ==
    /\ Len(k) >= Len(AnomalyLower)
    /\ \A i \in 1..Len(AnomalyLower) : k[i] \in {AnomalyLower[i], AnomalyUpper[i]}

(* The distribution the model provider gave the call c *)
Dist(c) == dict_of_items(pipe[c.text])

Keys(d) == Range(d.keys)
Idx(d, k) == CHOOSE i \in 1..Len(d.keys) : d.keys[i] = k
HasAnomaly(d) == \E k \in Keys(d) : AnomalyPrefixed(k)

(* The first anomaly-prefixed label in the enumeration order of d *)
FirstAnomaly(d) ==
    d.keys[CHOOSE i \in 1..Len(d.keys) :
              /\ AnomalyPrefixed(d.keys[i])
              /\ \A j \in 1..(i - 1) : ~AnomalyPrefixed(d.keys[j])]

(* k has the maximum probability of d, and is the first label that has it *)
IsTopLabel(d, k) ==
    /\ k \in Keys(d)
    /\ \A j \in Keys(d) : d.val[j] <= d.val[k]
    /\ \A j \in Keys(d) : d.val[j] = d.val[k] => Idx(d, k) <= Idx(d, j)

Finished(self) == ret[self].status # "none"

(* C1: for a non-empty distribution the call returns a decision whose label *)
(* is a key of the distribution and whose score is the distribution's value *)
(* at that label, whichever branch produced it.                             *)
C1_LabelIsKeyScoreIsItsValue ==
    \A self \in Threads :
        LET c == ret[self]
            d == Dist(c)
        IN  (Finished(self) /\ d.keys # <<>>) =>
                /\ c.status = "returned"
                /\ c.label # None
                /\ Get(c.label) \in Keys(d)
                /\ c.score = Some(d.val[Get(c.label)])

(* C1 witness: three labels, an anomaly label among them, and the fallback *)
(* returned Normal                                                         *)
C1_Witness ==
    /\ ret[1].status = "returned"
    /\ Len(Dist(ret[1]).keys) = 3
    /\ HasAnomaly(Dist(ret[1]))
    /\ ret[1].label = Some(L_Normal)

(* C2 as claimed: whenever some anomaly-prefixed label has probability >= t, *)
(* the decision is an anomaly-prefixed label with probability >= t.          *)
C2_AnyAnomalyAboveThresholdSelected ==
    \A self \in Threads :
        LET c == ret[self]
            d == Dist(c)
        IN  (Finished(self)
             /\ \E k \in Keys(d) : AnomalyPrefixed(k) /\ d.val[k] >= c.threshold)
            =>  /\ c.status = "returned"
                /\ AnomalyPrefixed(Get(c.label))
                /\ Get(c.score) >= c.threshold

(* C2 amended: when the first anomaly-prefixed label in enumeration order *)
(* has probability >= t, the decision is that label with its probability,  *)
(* even when another label has a higher probability.                       *)
C2_FirstAnomalyAboveThresholdSelected ==
    \A self \in Threads :
        LET c == ret[self]
            d == Dist(c)
        IN  (Finished(self) /\ HasAnomaly(d)
             /\ d.val[FirstAnomaly(d)] >= c.threshold)
            =>  /\ c.status = "returned"
                /\ c.label = Some(FirstAnomaly(d))
                /\ c.score = Some(d.val[FirstAnomaly(d)])

(* C2 witness: two anomaly-prefixed labels, the first selected at the *)
(* threshold although another label has a higher probability           *)
C2_Witness ==
    LET d == Dist(ret[1])
    IN  /\ ret[1].status = "returned"
        /\ Cardinality({k \in Keys(d) : AnomalyPrefixed(k)}) = 2
        /\ ret[1].label = Some(FirstAnomaly(d))
        /\ ret[1].score = Some(ret[1].threshold)
        /\ \E k \in Keys(d) : d.val[k] > Get(ret[1].score)

(* C3: when no label is anomaly-prefixed, the decision is the top label of *)
(* the distribution and its probability, for every threshold.              *)
C3_NoAnomalyLabelGivesTopLabel ==
    \A self \in Threads :
        LET c == ret[self]
            d == Dist(c)
        IN  (Finished(self) /\ d.keys # <<>> /\ ~HasAnomaly(d))
            =>  /\ c.status = "returned"
                /\ c.label # None
                /\ IsTopLabel(d, Get(c.label))
                /\ c.score = Some(d.val[Get(c.label)])

(* C3 witness: Normal and Anomal only, threshold 0, the second label on top *)
C3_Witness ==
    LET d == Dist(ret[1])
    IN  /\ ret[1].status = "returned"
        /\ Len(d.keys) = 2
        /\ ~HasAnomaly(d)
        /\ ret[1].threshold = 0
        /\ ret[1].label = Some(d.keys[2])

(* C4: when the anomaly label's probability is strictly below t, the   *)
(* decision is the top label of the whole distribution, and it is the  *)
(* anomaly label exactly when the anomaly label is that top label.     *)
C4_AnomalyBelowThresholdFallsBack ==
    \A self \in Threads :
        LET c == ret[self]
            d == Dist(c)
        IN  (Finished(self) /\ HasAnomaly(d)
             /\ d.val[FirstAnomaly(d)] < c.threshold)
            =>  /\ c.status = "returned"
                /\ c.label # None
                /\ IsTopLabel(d, Get(c.label))
                /\ c.score = Some(d.val[Get(c.label)])
                /\ (Get(c.label) = FirstAnomaly(d)
                        <=> IsTopLabel(d, FirstAnomaly(d)))

(* C4 witness: the anomaly label is below the threshold, still the top *)
(* label, and returned by the fallback                                 *)
C4_Witness ==
    LET d == Dist(ret[1])
    IN  /\ ret[1].status = "returned"
        /\ Len(d.keys) >= 2
        /\ HasAnomaly(d)
        /\ d.val[FirstAnomaly(d)] < ret[1].threshold
        /\ ret[1].label = Some(FirstAnomaly(d))

(* C5 as claimed: an empty distribution ends the call with InvalidInput. *)
C5_EmptyRaisesInvalidInput ==
    \A self \in Threads :
        (Finished(self) /\ Dist(ret[self]).keys = <<>>)
            => ret[self].status = "InvalidInput"

(* C5 amended: an empty distribution ends the call with the ValueError of *)
(* max() on an empty dict, for every threshold: no decision is returned   *)
(* and POST /predict does not answer 200.                                 *)
C5_EmptyRaisesValueError ==
    \A self \in Threads :
        (Finished(self) /\ Dist(ret[self]).keys = <<>>)
            =>  /\ ret[self].status = "ValueError"
                /\ ret[self].label = None
                /\ ret[self].score = None
                /\ response[self].status # "200"

(* C5 witness: a POST /predict on an empty model output has failed *)
C5_Witness ==
    /\ ret[1].status = "ValueError"
    /\ pipe[ret[1].text] = <<>>
    /\ response[1].status = "500"

(* C6: a call with the same text and threshold as the call before it ends *)
(* the same way, with the same label and the same score.                  *)
C6_SameArgumentsSameDecision ==
    \A self \in Threads :
        (Finished(self) /\ prev[self].status # "none")
            =>  /\ ret[self].status = prev[self].status
                /\ ret[self].label = prev[self].label
                /\ ret[self].score = prev[self].score

(* C6 witness: the call that printed the debug line and the next call, on *)
(* the same arguments, have both returned a decision                      *)
C6_Witness ==
    /\ prev[1].status = "returned"
    /\ ret[1].status = "returned"
    /\ prev[1].label # None
    /\ printed = 1

(* C7 as claimed: no step of any call changes a module-level variable. *)
C7_NoModuleStateChanges ==
    [][pipe' = pipe /\ DEBUG_PRINTED' = DEBUG_PRINTED]_vars

(* C7 amended: pipe never changes, and DEBUG_PRINTED changes only when  *)
(* line 19 of a call sets it from False to True; every other statement, *)
(* and every call after that one, leaves the module-level variables     *)
(* unchanged.                                                           *)
C7_OnlyLine19SetsDebugFlag ==
    [][/\ pipe' = pipe
       /\ (DEBUG_PRINTED' # DEBUG_PRINTED =>
              /\ ~DEBUG_PRINTED
              /\ DEBUG_PRINTED'
              /\ \E self \in Threads : pc[self] = "L19" /\ pc'[self] = "L22")
      ]_vars

(* C7 witness: a POST /predict has been answered after the flag was set *)
C7_Witness ==
    /\ DEBUG_PRINTED
    /\ response[1].status = "200"
    /\ prev[1].status = "returned"

(* C8: under every interleaving, a finished call has the outcome that *)
(* predict_log run by itself gives on its own text and threshold.     *)
C8_ConcurrentCallsReturnOwnDecision ==
    \A self \in Threads :
        Finished(self) =>
            ret[self] = predict_log(ret[self].text, pipe[ret[self].text],
                                    ret[self].threshold)

(* C8 witness: one thread has returned Anomaly while another, on a text *)
(* whose top label is Normal, is in the middle of the anomaly branch    *)
C8_Witness ==
    /\ ret[1].label = Some(L_Anomaly)
    /\ pc[2] = "L30"
    /\ frame[2].text = "normal line"

(* C9: the raw model output is debug-printed at most once. *)
C9_PrintedAtMostOnce == printed <= 1

(* C10: a decision of the anomaly branch is the first anomaly-prefixed   *)
(* label in enumeration order, and a decision of the fallback is the     *)
(* first label in enumeration order among those with the top probability *)
C10_TieBreakByEnumerationOrder ==
    \A self \in Threads :
        LET c == ret[self]
            d == Dist(c)
            l == Get(c.label)
            viaAnomaly == HasAnomaly(d) /\ d.val[FirstAnomaly(d)] >= c.threshold
        IN  c.status = "returned" =>
                \A k \in Keys(d) \ {l} :
                    /\ (viaAnomaly /\ AnomalyPrefixed(k)) =>
                            AnomalyPrefixed(l) /\ Idx(d, l) < Idx(d, k)
                    /\ (~viaAnomaly /\ d.val[k] >= d.val[l]) =>
                            d.val[k] = d.val[l] /\ Idx(d, l) < Idx(d, k)

(* C10 witness: two labels share the top probability, neither is *)
(* anomaly-prefixed, and the first of them is returned           *)
C10_Witness ==
    LET d == Dist(ret[1])
    IN  /\ ret[1].status = "returned"
        /\ d.keys = <<L_Anomal, L_Normal>>
        /\ d.val[L_Anomal] = d.val[L_Normal]
        /\ ret[1].label = Some(L_Anomal)

====
